---- MODULE Spec2Model ----
(***************************************************************************)
(* Model of src/app.py: the Flask handler of POST /calculate_indices and   *)
(* the process-wide Earth Engine credential it checks and refreshes.       *)
(*                                                                         *)
(* Every request is one thread running calculate_indices(). A step of the  *)
(* model is the code between two points where the thread touches the       *)
(* shared credential or waits for an external collaborator                 *)
(* (google-auth token exchange, ee.Initialize, the Earth Engine client).   *)
(* Strings whose case matters are sequences of ASCII codes.                *)
(***************************************************************************)
EXTENDS Integers, Sequences, FiniteSets, TLC

VARIABLES
    cred,   \* ee.data._credentials: the process-wide cached credential
    pc,     \* per request: the position of its handler thread
    req,    \* per request: the parsed JSON body (request.json)
    loc,    \* per request: the handler's local variables
    resp,   \* per request: the HTTP response returned, NoResp before
    h       \* per request: observations of the run (history only)

vars == <<cred, pc, req, loc, resp, h>>

----------------------------------------------------------------------------
(* Bounds *)

\* History counters saturate here (they never get this far in the code).
MaxCount == 3

Reqs == {"r1", "r2"}

\* Thumbnail URLs the platform may hand out (the token in them varies).
Urls == {"https://ee/thumb?token=a", "https://ee/thumb?token=b"}

----------------------------------------------------------------------------
(* Strings as ASCII codes *)

s_ndvi  == <<110, 100, 118, 105>>
s_Reci  == <<82, 101, 99, 105>>
s_NDMI  == <<78, 68, 77, 73>>
s_msavi == <<109, 115, 97, 118, 105>>
s_bogus == <<98, 111, 103, 117, 115>>

NDVI  == <<78, 68, 86, 73>>
RECI  == <<82, 69, 67, 73>>
NDMI  == <<78, 68, 77, 73>>
MSAVI == <<77, 83, 65, 86, 73>>

\* A variant of upper that leaves the text as it came.
upper_unchanged(s) == s

\* str.upper() on ASCII text: a..z (97..122) move down by 32.
upper(s) == [i \in DOMAIN s |-> IF s[i] >= 97 /\ s[i] <= 122 THEN s[i] - 32 ELSE s[i]]

----------------------------------------------------------------------------
(* Request bodies *)

NoCoords == [wellFormed |-> FALSE, ring |-> 0]
NoIndex  == [kind |-> "none", chars |-> <<>>]

\* data['coordinates']: a polygon ring ee.Geometry.Polygon accepts and a
\* value it rejects (a flat list of odd length, e.g. [1, 2, 3]).
CoordValues == { [wellFormed |-> TRUE, ring |-> 1],
                 [wellFormed |-> FALSE, ring |-> 3] }

\* data['index']: strings in mixed case, an unknown name, and a JSON number.
IndexValues == { [kind |-> "str", chars |-> s_ndvi],
                 [kind |-> "str", chars |-> s_Reci],
                 [kind |-> "str", chars |-> s_NDMI],
                 [kind |-> "str", chars |-> s_msavi],
                 [kind |-> "str", chars |-> s_bogus],
                 [kind |-> "num", chars |-> <<>>] }

Bodies ==
    { [hasCoords |-> TRUE, coordinates |-> c, hasIndex |-> TRUE, index |-> i] :
        c \in CoordValues, i \in IndexValues }
    \cup { [hasCoords |-> FALSE, coordinates |-> NoCoords, hasIndex |-> TRUE, index |-> i] :
        i \in IndexValues }
    \cup { [hasCoords |-> TRUE, coordinates |-> c, hasIndex |-> FALSE, index |-> NoIndex] :
        c \in CoordValues }
    \cup { [hasCoords |-> FALSE, coordinates |-> NoCoords, hasIndex |-> FALSE, index |-> NoIndex] }

----------------------------------------------------------------------------
(* Responses *)

NoVis  == [min |-> 0, max |-> 0, palette |-> <<>>]
NoResp == [status |-> 0, error |-> "", exc |-> "", url |-> "",
           coordinates |-> NoCoords, index |-> <<>>]

\* jsonify({"error": msg}), code. exc is the exception text appended, if any.
ErrorResp(code, msg, e) ==
    [status |-> code, error |-> msg, exc |-> e, url |-> "",
     coordinates |-> NoCoords, index |-> <<>>]

\* jsonify({"url": url, "coordinates": data['coordinates'], "index": index})
OkResp(u, c, i) ==
    [status |-> 200, error |-> "", exc |-> "", url |-> u, coordinates |-> c, index |-> i]

----------------------------------------------------------------------------
(* History *)

Inc(n) == IF n < MaxCount THEN n + 1 ELSE n

NoHist == [ checked    |-> "none",  \* cred.state as it was at the check (line 36)
            ensureInit |-> "none",  \* the check's own initialize: none/started/ok/failed
            forced     |-> 0,       \* forced reinitializations begun (line 137)
            reinit     |-> "none",  \* outcome of the forced one: none/ok/failed
            runs       |-> 1,       \* times the handler body was entered
            extCalls   |-> 0,       \* calls made to external collaborators
            thumbCalls |-> 0,       \* getThumbURL calls issued
            eeErrs     |-> 0,       \* ee.EEException raised in the try body
            otherErrs  |-> 0,       \* other exceptions raised in the handler
            thumbErr   |-> "none",  \* outcome of the first getThumbURL call
            overlap    |-> FALSE,   \* the check began a refresh while another's ran
            lateReturn |-> "none" ] \* whose credential was cached when an initialization
                                    \* of this request returned after another's had: own/other

----------------------------------------------------------------------------
(* Initial state: the module was imported, so line 41 has run and          *)
(* succeeded: a credential is cached (never absent afterwards) and valid.  *)

InitWith(B) ==
    /\ cred = [state |-> "valid", by |-> "startup"]
    /\ pc = [r \in Reqs |-> "ensure"]
    /\ req \in [Reqs -> B]
    /\ loc = [r \in Reqs |-> [index |-> <<>>, vis |-> NoVis, inner |-> FALSE]]
    /\ resp = [r \in Reqs |-> NoResp]
    /\ h = [r \in Reqs |-> NoHist]

Init == InitWith(Bodies)

\* Bodies that between them take every way through the handler: a field
\* missing, coordinates the platform rejects, an index that is no string,
\* an unknown index, and a valid request. Termination of a request does not
\* depend on which of the four bands it names.
FairBodies ==
    { b \in Bodies : b.index.chars \notin {s_Reci, s_NDMI, s_msavi} }

FairInit == InitWith(FairBodies)

----------------------------------------------------------------------------
(* The credential cache *)

\* A variant of needs_init that looks for a missing credential only.
needs_init_absent_only(c) == c.state = "absent"

\* line 36: not ee.data._credentials or ee.data._credentials.expired
needs_init(c) == c.state = "absent" \/ c.state = "expired"

\* A variant of install that keeps a cached credential that is still valid.
install_unless_valid(r) ==
    IF cred.state = "valid" THEN cred ELSE [state |-> "valid", by |-> r]

\* line 28: ee.Initialize(credentials) stores the new credential object,
\* whatever was stored before.
install(r) == [state |-> "valid", by |-> r]

\* Results of initialize_earth_engine(): it returns, or re-raises (line 32)
\* ee.EEException from ee.Initialize, or any other exception (file, token
\* exchange).
InitOutcomes == {"ok", "ee", "other"}

\* Positions inside initialize_earth_engine(): called by the check (line 38)
\* or forced (line 137), before and after ee.Initialize stored the
\* credential.
InsideInit == {"init", "init_stored", "reinit", "reinit_stored"}

\* History: as an initialization of r returns, had another request's
\* already returned, and whose credential is cached?
LateReturn(r) ==
    IF \E q \in Reqs \ {r} : /\ h[q].ensureInit = "ok" \/ h[q].reinit = "ok"
                             /\ pc[q] \notin InsideInit
    THEN (IF cred.by = r THEN "own" ELSE "other")
    ELSE h[r].lateReturn

\* Results of getThumbURL (line 122).
ThumbOutcomes == {"ok", "ee", "other"}

----------------------------------------------------------------------------
(* The fixed visualization of each index, lines 91-112 *)

select_band(index) ==
    IF index = NDVI THEN
        [min |-> 0, max |-> 1,
         palette |-> <<"#8B4513", "#FF0000", "#FFFF00", "#008000">>]
    ELSE IF index = RECI THEN
        [min |-> 0, max |-> 5,
         palette |-> <<"#8B0000", "#FFA500", "#FFFF00", "#90EE90", "#006400">>]
    ELSE IF index = NDMI THEN
        [min |-> -1, max |-> 1,
         palette |-> <<"#3B2C1C", "#FF0000", "#FFFF00", "#90EE90", "#00008B">>]
    ELSE IF index = MSAVI THEN
        [min |-> 0, max |-> 1,
         palette |-> <<"#3B2C1C", "#FF0000", "#FFA500", "#90EE90", "#006400">>]
    ELSE NoVis

----------------------------------------------------------------------------
(* Leaving the try body *)

\* return <response>: the handler is finished.
Return(r, rsp) ==
    /\ pc' = [pc EXCEPT ![r] = "done"]
    /\ resp' = [resp EXCEPT ![r] = rsp]

\* except ee.EEException (lines 133-137): log, then start a forced
\* initialize_earth_engine().
CatchEE(r, hr) ==
    /\ pc' = [pc EXCEPT ![r] = "reinit"]
    /\ h' = [h EXCEPT ![r] = [hr EXCEPT !.eeErrs = Inc(@), !.forced = Inc(@),
                                        !.extCalls = Inc(@)]]
    /\ UNCHANGED resp

\* A variant of CatchOther that treats every exception as retryable.
CatchOther_retries(r, hr, e) ==
    CatchEE(r, [hr EXCEPT !.otherErrs = Inc(@)])

\* except Exception (lines 143-145): log and answer 500.
CatchOther(r, hr, e) ==
    /\ Return(r, ErrorResp(500, "An unexpected error occurred: ", e))
    /\ h' = [h EXCEPT ![r] = [hr EXCEPT !.otherErrs = Inc(@)]]

----------------------------------------------------------------------------
(* The handler, step by step *)

\* lines 35-38, called at line 51: check the cache, start a refresh if stale.
ensure_earth_engine_initialized(r) ==
    /\ pc[r] = "ensure"
    /\ IF needs_init(cred)
       THEN /\ pc' = [pc EXCEPT ![r] = "init"]
            /\ h' = [h EXCEPT ![r] = [@ EXCEPT !.checked = cred.state, !.ensureInit = "started",
                                               !.extCalls = Inc(@),
                                               !.overlap = \E q \in Reqs \ {r} :
                                                               pc[q] \in {"init", "init_stored"}]]
       ELSE /\ pc' = [pc EXCEPT ![r] = "validate"]
            /\ h' = [h EXCEPT ![r] = [@ EXCEPT !.checked = cred.state]]
    /\ UNCHANGED <<cred, req, loc, resp>>

\* line 28, reached through lines 22-27: ee.Initialize(credentials) stores
\* the credential this thread has just exchanged. The thread is still
\* inside ee.Initialize (it goes on to talk to the server) and has line 29
\* to run before initialize_earth_engine() returns.
ee_Initialize_stores(r) ==
    /\ pc[r] \in {"init", "reinit"}
    /\ cred' = install(r)
    /\ pc' = [pc EXCEPT ![r] = IF pc[r] = "init" THEN "init_stored" ELSE "reinit_stored"]
    /\ UNCHANGED <<req, loc, resp, h>>

\* lines 20-32 as called from line 38: the refresh the check started ends.
\* It returns only after the store; it raises from before or after it.
initialize_earth_engine(r) ==
    /\ pc[r] \in {"init", "init_stored"}
    /\ \E o \in InitOutcomes :
        \/ /\ o = "ok"
           /\ pc[r] = "init_stored"
           /\ pc' = [pc EXCEPT ![r] = "validate"]
           /\ h' = [h EXCEPT ![r] = [@ EXCEPT !.ensureInit = "ok",
                                              !.lateReturn = LateReturn(r)]]
           /\ UNCHANGED resp
        \/ /\ o = "ee"
           /\ CatchEE(r, [h[r] EXCEPT !.ensureInit = "failed"])
        \/ /\ o = "other"
           /\ CatchOther(r, [h[r] EXCEPT !.ensureInit = "failed"], "initialize")
    /\ UNCHANGED <<cred, req, loc>>

\* lines 53-57: the two presence checks on request.json.
Validate(r) ==
    /\ pc[r] = "validate"
    /\ IF ~req[r].hasCoords
       THEN Return(r, ErrorResp(400, "No coordinates provided", ""))
       ELSE IF ~req[r].hasIndex
       THEN Return(r, ErrorResp(400, "No index specified", ""))
       ELSE pc' = [pc EXCEPT ![r] = "build"] /\ UNCHANGED resp
    /\ UNCHANGED <<cred, req, loc, h>>

\* lines 59-88: ee.Geometry.Polygon, index.upper(), the collection and the
\* inner def. Polygon raises ee.EEException on coordinates it cannot read;
\* a JSON number has no upper().
Build(r) ==
    /\ pc[r] = "build"
    /\ LET hr == [h[r] EXCEPT !.extCalls = Inc(@)] IN
       IF ~req[r].coordinates.wellFormed
       THEN CatchEE(r, hr) /\ UNCHANGED loc
       ELSE IF req[r].index.kind # "str"
       THEN CatchOther(r, hr, "AttributeError") /\ UNCHANGED loc
       ELSE /\ loc' = [loc EXCEPT ![r] = [@ EXCEPT !.index = upper(req[r].index.chars),
                                                   !.inner = TRUE]]
            /\ pc' = [pc EXCEPT ![r] = "select"]
            /\ h' = [h EXCEPT ![r] = hr]
            /\ UNCHANGED resp
    /\ UNCHANGED <<cred, req>>

\* lines 90-119: pick the band and its visualization, or answer 400.
Select(r) ==
    /\ pc[r] = "select"
    /\ IF select_band(loc[r].index) = NoVis
       THEN Return(r, ErrorResp(400, "Invalid index specified", "")) /\ UNCHANGED loc
       ELSE /\ loc' = [loc EXCEPT ![r] = [@ EXCEPT !.vis = select_band(loc[r].index)]]
            /\ pc' = [pc EXCEPT ![r] = "thumb"]
            /\ UNCHANGED resp
    /\ UNCHANGED <<cred, req, h>>

\* lines 122-131: getThumbURL, then the success response.
Thumb(r) ==
    /\ pc[r] = "thumb"
    /\ \E o \in ThumbOutcomes :
        LET hr == [h[r] EXCEPT !.extCalls = Inc(@), !.thumbCalls = Inc(@),
                               !.thumbErr = IF @ = "none" THEN o ELSE @] IN
        \/ /\ o = "ok"
           /\ \E u \in Urls : Return(r, OkResp(u, req[r].coordinates, loc[r].index))
           /\ h' = [h EXCEPT ![r] = hr]
        \/ /\ o = "ee"
           /\ CatchEE(r, hr)
        \/ /\ o = "other"
           /\ CatchOther(r, hr, "getThumbURL")
    /\ UNCHANGED <<cred, req, loc>>

\* A variant of Reinitialize that goes on to the retry although the forced
\* initialization raised.
Reinitialize_ignores_failure(r) ==
    /\ pc[r] \in {"reinit", "reinit_stored"}
    /\ \E o \in InitOutcomes :
        /\ o = "ok" => pc[r] = "reinit_stored"
        /\ pc' = [pc EXCEPT ![r] = "retry"]
        /\ h' = [h EXCEPT ![r] = [@ EXCEPT !.reinit = IF o = "ok" THEN "ok" ELSE "failed",
                                           !.lateReturn = IF o = "ok" THEN LateReturn(r) ELSE @]]
        /\ UNCHANGED resp
    /\ UNCHANGED <<cred, req, loc>>

\* lines 136-137 and 141-142: the forced initialize_earth_engine() ends.
\* It returns only after the store; it raises from before or after it.
Reinitialize(r) ==
    /\ pc[r] \in {"reinit", "reinit_stored"}
    /\ \E o \in InitOutcomes :
        \/ /\ o = "ok"
           /\ pc[r] = "reinit_stored"
           /\ pc' = [pc EXCEPT ![r] = "retry"]
           /\ h' = [h EXCEPT ![r] = [@ EXCEPT !.reinit = "ok",
                                              !.lateReturn = LateReturn(r)]]
           /\ UNCHANGED resp
        \/ /\ o # "ok"
           /\ Return(r, ErrorResp(500, "Failed to reinitialize Earth Engine: ", "initialize"))
           /\ h' = [h EXCEPT ![r] = [@ EXCEPT !.reinit = "failed"]]
    /\ UNCHANGED <<cred, req, loc>>

\* A variant of Retry in which the name at line 140 is the route handler:
\* the request is handled again from the top.
Retry_reenters(r) ==
    /\ pc[r] = "retry"
    /\ pc' = [pc EXCEPT ![r] = "ensure"]
    /\ loc' = [loc EXCEPT ![r] = [index |-> <<>>, vis |-> NoVis, inner |-> FALSE]]
    /\ h' = [h EXCEPT ![r] = [@ EXCEPT !.runs = Inc(@)]]
    /\ UNCHANGED <<cred, req, resp>>

\* line 140: return calculate_indices(). The def at line 69 makes the name
\* local to the handler: it is the inner one-argument function once line 69
\* has run (TypeError), and unbound before (UnboundLocalError). Either is
\* caught at line 141 and answered at line 142.
Retry(r) ==
    /\ pc[r] = "retry"
    /\ Return(r, ErrorResp(500, "Failed to reinitialize Earth Engine: ",
                           IF loc[r].inner THEN "TypeError" ELSE "UnboundLocalError"))
    /\ h' = [h EXCEPT ![r] = [@ EXCEPT !.otherErrs = Inc(@)]]
    /\ UNCHANGED <<cred, req, loc>>

\* line 36, .expired: the cached token's lifetime runs out.
TokenExpires ==
    /\ cred.state = "valid"
    /\ cred' = [cred EXCEPT !.state = "expired"]
    /\ UNCHANGED <<pc, req, loc, resp, h>>

Step(r) ==
    \/ ensure_earth_engine_initialized(r)
    \/ ee_Initialize_stores(r)
    \/ initialize_earth_engine(r)
    \/ Validate(r)
    \/ Build(r)
    \/ Select(r)
    \/ Thumb(r)
    \/ Reinitialize(r)
    \/ Retry(r)

Next ==
    \/ \E r \in Reqs : ensure_earth_engine_initialized(r)
    \/ \E r \in Reqs : ee_Initialize_stores(r)
    \/ \E r \in Reqs : initialize_earth_engine(r)
    \/ \E r \in Reqs : Validate(r)
    \/ \E r \in Reqs : Build(r)
    \/ \E r \in Reqs : Select(r)
    \/ \E r \in Reqs : Thumb(r)
    \/ \E r \in Reqs : Reinitialize(r)
    \/ \E r \in Reqs : Retry(r)
    \/ TokenExpires

Spec == Init /\ [][Next]_vars

\* Each external call returns or raises, and a thread that can run does.
FairSpec == FairInit /\ [][Next]_vars /\ \A r \in Reqs : WF_vars(Step(r))

----------------------------------------------------------------------------
(* Vocabulary of the properties *)

Done(r) == pc[r] = "done"

Supported == {NDVI, RECI, NDMI, MSAVI}

\* u is s with every lower-case ASCII letter replaced by its capital.
IsUpperOf(u, s) ==
    /\ Len(u) = Len(s)
    /\ \A i \in 1..Len(s) :
        IF s[i] \in 97..122 THEN u[i] = s[i] - 32 ELSE u[i] = s[i]

\* The index names one of the four, whatever its case.
NamesSupported(ix) ==
    ix.kind = "str" /\ \E e \in Supported : IsUpperOf(e, ix.chars)

BothPresent(r) == req[r].hasCoords /\ req[r].hasIndex

ValidRequest(r) == BothPresent(r) /\ NamesSupported(req[r].index)

\* No call to an external collaborator raised while r was handled.
NoFailure(r) ==
    /\ h[r].eeErrs = 0
    /\ h[r].otherErrs = 0
    /\ h[r].ensureInit # "failed"
    /\ h[r].reinit # "failed"

IsSuccess(r) ==
    /\ resp[r].status = 200
    /\ resp[r].url \in Urls
    /\ resp[r].error = ""
    /\ resp[r].coordinates = req[r].coordinates
    /\ IsUpperOf(resp[r].index, req[r].index.chars)

\* The (min, max) the specification's table gives each index.
RangeOf(index) ==
    IF index = NDVI THEN <<0, 1>>
    ELSE IF index = RECI THEN <<0, 5>>
    ELSE IF index = NDMI THEN <<-1, 1>>
    ELSE <<0, 1>>

----------------------------------------------------------------------------
(* C1: a request whose thumbnail call fails once with ee.EEException and   *)
(* whose forced reinitialization succeeds ends with HTTP 200 and the       *)
(* success body {url, coordinates, index}.                                 *)
C1_RetryEndsIn200 ==
    \A r \in Reqs :
        (Done(r) /\ ValidRequest(r) /\ h[r].thumbErr = "ee" /\ h[r].eeErrs = 1
                 /\ h[r].reinit = "ok")
            => IsSuccess(r)

(* C2: a request whose body lacks coordinates or lacks index is answered   *)
(* 400 with an error field, and no external collaborator was called while  *)
(* handling it, whatever the cached credential was.                        *)
C2_MissingFieldNoExternalCall ==
    \A r \in Reqs :
        (Done(r) /\ ~BothPresent(r))
            => /\ resp[r].status = 400
               /\ resp[r].error # ""
               /\ h[r].extCalls = 0

(* C3: one request causes at most one forced reinitialization and at most  *)
(* one re-run of the handler.                                              *)
C3_AtMostOneRetry ==
    \A r \in Reqs : h[r].forced <= 1 /\ h[r].runs <= 2

C3_Witness ==
    \E r \in Reqs : Done(r) /\ h[r].forced = 1 /\ h[r].reinit = "ok" /\ h[r].thumbErr = "ee"

(* C4: a request with both fields present whose index, case-insensitively, *)
(* is none of NDVI, RECI, NDMI, MSAVI is answered 400 "Invalid index       *)
(* specified", whatever its coordinates and whatever happened before the   *)
(* index was matched.                                                      *)
C4_UnknownIndexIs400 ==
    \A r \in Reqs :
        (Done(r) /\ BothPresent(r) /\ ~NamesSupported(req[r].index))
            => /\ resp[r].status = 400
               /\ resp[r].error = "Invalid index specified"

(* C5: a valid request during which no external call fails is answered 200 *)
(* with index the upper-cased input and coordinates the input unchanged;   *)
(* the visualization used has the fixed range of that index, and two       *)
(* requests for the same index use the same visualization.                 *)
C5_ValidRequestSucceeds ==
    \A r \in Reqs :
        (Done(r) /\ ValidRequest(r) /\ NoFailure(r))
            => /\ IsSuccess(r)
               /\ resp[r].index \in Supported
               /\ <<loc[r].vis.min, loc[r].vis.max>> = RangeOf(resp[r].index)
               /\ Len(loc[r].vis.palette) >= 4
               /\ \A q \in Reqs :
                    (Done(q) /\ resp[q].status = 200 /\ resp[q].index = resp[r].index)
                        => loc[q].vis = loc[r].vis

C5_Witness ==
    \E r \in Reqs : \E q \in Reqs \ {r} :
        /\ Done(r) /\ Done(q)
        /\ resp[r].status = 200 /\ resp[q].status = 200
        /\ req[r] = req[q]
        /\ req[r].index.chars = s_Reci
        /\ resp[r].url # resp[q].url

(* C6: when the forced reinitialization that follows an external-service   *)
(* error fails, the request ends at once with HTTP 500 and an error body;  *)
(* nothing of the request is run again.                                    *)
C6_FailedReinitIs500 ==
    \A r \in Reqs :
        h[r].reinit = "failed"
            => /\ Done(r)
               /\ resp[r].status = 500
               /\ resp[r].error # ""
               /\ h[r].runs = 1
               /\ h[r].forced = 1

C6_Witness ==
    \E r \in Reqs : Done(r) /\ h[r].reinit = "failed" /\ h[r].eeErrs = 1

(* C7: an exception that is not ee.EEException ends the request with HTTP  *)
(* 500 and an error body without forcing a reinitialization or running the *)
(* request again; and once a request is answered (400 included) nothing    *)
(* more of it runs.                                                        *)
C7_NoRetryOfOtherFailures ==
    [][\A r \in Reqs :
        /\ h'[r].otherErrs > h[r].otherErrs
            => /\ Done(r)'
               /\ resp'[r].status = 500
               /\ resp'[r].error # ""
               /\ h'[r].forced = h[r].forced
               /\ h'[r].runs = h[r].runs
        /\ Done(r)
            => /\ Done(r)'
               /\ resp'[r] = resp[r]
               /\ h'[r] = h[r]]_vars

C7_Witness ==
    \E r \in Reqs : \E q \in Reqs \ {r} :
        /\ Done(r) /\ h[r].otherErrs = 1 /\ h[r].forced = 0 /\ h[r].thumbErr = "other"
        /\ Done(q) /\ resp[q].status = 400

(* C8: the credential check comes before any use of the platform. If it    *)
(* saw the token expired, its exchange-and-initialize step has completed   *)
(* successfully before the request issues its thumbnail call; if it saw    *)
(* the token valid, the check performs no exchange-and-initialize step.    *)
C8_CheckBeforeUse ==
    \A r \in Reqs :
        /\ (pc[r] \in {"validate", "build", "select", "thumb"} \/ h[r].thumbCalls > 0)
            => h[r].checked # "none"
        /\ ((pc[r] = "thumb" \/ h[r].thumbCalls > 0) /\ h[r].checked = "expired")
            => h[r].ensureInit = "ok"
        /\ h[r].checked = "valid" => h[r].ensureInit = "none"

C8_Witness ==
    \E r \in Reqs : \E q \in Reqs \ {r} :
        /\ h[r].thumbCalls = 1 /\ h[r].checked = "expired" /\ h[r].ensureInit = "ok"
        /\ h[q].thumbCalls = 1 /\ h[q].checked = "valid"

(* C9: the check-then-refresh is not mutually exclusive, and of two        *)
(* initializations the one that completes (returns) later has overwritten  *)
(* the session installed by the one that completed earlier: when an        *)
(* initialization returns after another request's has, the cached          *)
(* credential is its own.                                                  *)
C9_LaterCompletingOverwrites ==
    \A r \in Reqs : h[r].lateReturn # "other"

(* C9 as amended: the check-then-refresh is not mutually exclusive, and    *)
(* each initialization, at the moment ee.Initialize stores its credential  *)
(* (line 28), overwrites whatever session is cached; so of two concurrent  *)
(* initializations the one that stores later stays in place, whichever     *)
(* returns later.                                                          *)
C9_LaterStoreOverwrites ==
    [][\A r \in Reqs :
        (pc[r] \in {"init", "reinit"} /\ pc'[r] \in {"init_stored", "reinit_stored"})
            => cred' = [state |-> "valid", by |-> r]]_vars

\* Two requests saw the token expired and refreshed at the same time; q
\* stored after r and returned before it; the credential in place is q's.
C9_Witness ==
    \E r \in Reqs : \E q \in Reqs \ {r} :
        /\ h[r].checked = "expired" /\ h[q].checked = "expired"
        /\ h[r].overlap \/ h[q].overlap
        /\ h[r].ensureInit = "ok" /\ h[q].ensureInit = "ok"
        /\ h[r].lateReturn = "other"
        /\ cred = [state |-> "valid", by |-> q]

(* C10: every invocation of the handler ends, with exactly one response,   *)
(* of status 200, 400 or 500, whatever the external calls return or raise; *)
(* the handler never re-enters itself without limit.                       *)
C10_HandlerTerminates ==
    /\ \A r \in Reqs : <>Done(r)
    /\ [](\A r \in Reqs :
            /\ Done(r) <=> resp[r] # NoResp
            /\ Done(r) => resp[r].status \in {200, 400, 500}
            /\ h[r].runs <= 2)
    /\ [][\A r \in Reqs : Done(r) => resp'[r] = resp[r]]_vars

C10_Witness ==
    \E r \in Reqs :
        /\ Done(r) /\ h[r].thumbErr = "ee" /\ h[r].reinit = "ok"
        /\ resp[r].status = 500

====
